---- MODULE Spec2Model ----
(***************************************************************************)
(* State-machine model of src/src/main.rs (bevyfield): an entity-component *)
(* world, the update systems `movement` and `camera`, the `render` system, *)
(* the ModelManager cache and the fixed-timestep main loop.                *)
(*                                                                         *)
(* Numbers.  The program computes in f32/f64.  The model computes in exact *)
(* fixed point, so that the equalities the specification states "within    *)
(* floating-point tolerance" can be stated as equalities:                  *)
(*   - time    : TimeScale units per second, FIXED_UPDATE_TIME units/tick  *)
(*   - scalars : Scale units per 1.0 (velocities, angles, unit vectors);   *)
(*               one angle unit is CAM_LOOK_SPEED radians                  *)
(*   - position: PosScale = Scale * TimeScale units per world unit, which  *)
(*               is the unit of the product velocity * time_delta          *)
(* Floating-point rounding is not modelled.                                *)
(*                                                                         *)
(* Collaborators that are not part of the repository (glfw window, GL      *)
(* state machine, FpsCamera, GltfModel loader) are modelled by the calls   *)
(* main.rs makes on them.                                                  *)
(***************************************************************************)
EXTENDS Integers, Sequences, FiniteSets, TLC

(***************************************************************************)
(* Bounds of the model.                                                    *)
(***************************************************************************)
\* wall-clock resolution: time units per simulation tick
SubTick == 2
\* frames the main loop may start
MaxFrames == 2
\* largest frame time, in time units
MaxFrameTime == 4
\* window events handled in one poll
MaxEvents == 1
\* cursor coordinates range over 0..MaxCursor
MaxCursor == 1
\* wall-clock time read before the loop ranges over 0..MaxStartTime
MaxStartTime == 1
\* entities of an arbitrary world (SpecWorld)
MaxEntities == 2
\* with_model calls of an arbitrary call sequence (SpecCache)
MaxCalls == 4

(***************************************************************************)
(* Program constants.                                                      *)
(***************************************************************************)
WIREFRAME_MODE == FALSE
\* CAM_LOOK_SPEED = 0.001 = 1 / CAM_LOOK_SPEED_INV
CAM_LOOK_SPEED_INV == 1000
\* CAM_FLY_SPEED = 0.1 = 1 / CAM_FLY_SPEED_INV
CAM_FLY_SPEED_INV == 10
WINDOW_WIDTH == 1024 * 2
WINDOW_HEIGHT == 768 * 2
FIXED_UPDATE == 30
RENDER_WIDTH == 320
RENDER_HEIGHT == 240

\* fixed-point scales
Scale == CAM_LOOK_SPEED_INV
TimeScale == FIXED_UPDATE * SubTick
PosScale == Scale * TimeScale

\* 1.0 / FIXED_UPDATE seconds, in time units
FIXED_UPDATE_TIME == TimeScale \div FIXED_UPDATE
\* radians per pixel, in angle units
CAM_LOOK_SPEED == Scale \div CAM_LOOK_SPEED_INV

(***************************************************************************)
(* Vectors.                                                                *)
(***************************************************************************)
Vec3(x, y, z) == <<x, y, z>>
VAdd(a, b) == <<a[1] + b[1], a[2] + b[2], a[3] + b[3]>>
VScale(a, k) == <<a[1] * k, a[2] * k, a[3] * k>>
Zero3 == Vec3(0, 0, 0)
\* a world-space point given in whole world units
WorldPos(x, y, z) == Vec3(x * PosScale, y * PosScale, z * PosScale)

(***************************************************************************)
(* Components and the world of main().                                     *)
(***************************************************************************)
Kinds == {"Position", "Velocity", "PitchYaw", "Model", "CameraComponent"}

DEMO_SCENE == "resources/models/demo_scene.glb"
FIRE_ORB == "resources/models/fire_orb.glb"
\* a name no entity of main() refers to
OTHER_MODEL == "resources/models/other.glb"
ModelNames == {DEMO_SCENE, FIRE_ORB, OTHER_MODEL}

\* FpsCamera: the position and angles it was given, and what update()
\* derived from them.  The view matrix is represented by the triple that
\* determines it.
Forward(pitch, yaw) == Vec3(-yaw, pitch, -Scale)
ViewMatrix(pos, pitch, yaw) == <<pos, pitch, yaw>>
FpsCameraNew ==
    [pos |-> Zero3, pitch |-> 0, yaw |-> 0,
     forward |-> Forward(0, 0), view |-> ViewMatrix(Zero3, 0, 0)]
FpsCameraUpdate(c) ==
    [c EXCEPT !.forward = Forward(c.pitch, c.yaw),
              !.view = ViewMatrix(c.pos, c.pitch, c.yaw)]

camera_id == 1
MainEntities == 1..6
MainComps ==
    [e \in MainEntities |->
        IF e = camera_id THEN {"Position", "PitchYaw", "CameraComponent"}
        ELSE {"Position", "Velocity", "Model"}]
MainPosition ==
    [e \in MainEntities |->
        CASE e = 1 -> WorldPos(0, 3, 10)
          [] e = 2 -> WorldPos(0, 0, 0)
          [] e = 3 -> WorldPos(0, 0, 0)
          [] e = 4 -> WorldPos(0, 0, 20)
          [] e = 5 -> WorldPos(-10, 0, 10)
          [] OTHER -> WorldPos(10, 0, 10)]
MainVelocity ==
    [e \in MainEntities |->
        IF e \in 3..6 THEN Vec3(0, Scale \div 2, 0) ELSE Zero3]
\* pitch -0.1, yaw 0.0
MainPitchYaw ==
    [e \in MainEntities |-> [pitch |-> -(Scale \div 10), yaw |-> 0]]
MainModel ==
    [e \in MainEntities |-> IF e = 2 THEN DEMO_SCENE ELSE FIRE_ORB]

VARIABLES
    pc,             \* position of main(): loop_head, poll, timestep, ticks,
                    \* update, render_draw, present, exited, panicked
    comps,          \* entity -> the component kinds it carries
    position,       \* entity -> Position
    velocity,       \* entity -> Velocity
    pitch_yaw,      \* entity -> PitchYaw
    model_name,     \* entity -> Model.name
    camera_comp,    \* entity -> CameraComponent.camera
    time,           \* Time resource
    loaded_models,  \* ModelManager.loaded_models
    ubo_global,     \* RenderParams.ubo_global (the fields render writes)
    gl,             \* GL state: draw target, viewport, depth test, fill mode
    should_close,   \* the window's close flag
    win_size,       \* the window's current size
    current_time, sim_time, accumulator, frame_time,
    mouse,          \* (mouse_x, mouse_y)
    forward_held,
    pending,        \* systems of the update stage that have not run yet
    draw_idx,       \* next entity the model query of render visits
    \* history variables
    start_time,     \* wall-clock time read before the loop
    frames,         \* frames started
    events_polled,  \* events handled in this frame's poll
    escape_frame,   \* frame in which Escape was polled, 0 if never
    acc_before,     \* accumulator at the start of this frame
    ticks_total,    \* ticks executed
    ticks_in_frame,
    moves_in_frame, \* runs of movement / camera in this frame
    cams_in_frame,
    renders_in_frame,
    presents_in_frame,
    loads,          \* model name -> times the loader returned a model
    calls,          \* model name -> completed with_model calls
    draws,          \* draw calls of the current render pass, with GL state
    first_system,   \* the system that ran first in the current update stage
    cam_before      \* camera Position and stored forward at frame start

world == <<comps, position, velocity, pitch_yaw, model_name, camera_comp>>
loop_vars == <<current_time, sim_time, accumulator, frame_time, mouse,
               forward_held>>
window_vars == <<should_close, win_size>>
render_vars == <<loaded_models, ubo_global, gl, draw_idx, draws, loads, calls>>
frame_hist == <<start_time, frames, events_polled, escape_frame, acc_before,
                ticks_total, ticks_in_frame, moves_in_frame, cams_in_frame,
                renders_in_frame, presents_in_frame>>
stage_hist == <<first_system, cam_before>>
vars == <<pc, world, time, loop_vars, window_vars, render_vars, pending,
          frame_hist, stage_hist>>

Entities == DOMAIN comps
\* Query<(...)>: the entities that carry every kind of the query
Query(kinds) == {e \in Entities : kinds \subseteq comps[e]}


(***************************************************************************)
(* ModelManager.                                                           *)
(***************************************************************************)
\* GltfModel::from_file(name), the gen-th model the loader returns for name
LoadedModel(name, gen) ==
    [name |-> name, gen |-> gen, transform |-> Zero3, applied |-> 0]
\* the closure render passes to with_model: set_transform, then render;
\* `applied` counts the closures applied to this instance
ApplyMutator(m, arg) ==
    [m EXCEPT !.transform = arg, !.applied = @ + 1]
\* an insert that is lost
CacheInsertLost(cache, name, m) == cache
\* loaded_models.insert(name, model)
CacheInsert(cache, name, m) ==
    [n \in DOMAIN cache \cup {name} |-> IF n = name THEN m ELSE cache[n]]

\* ModelManager::new
EmptyCache == [n \in {} |-> LoadedModel(n, 0)]

\* a with_model that loads on every call and replaces the cached entry
WithModelReload(cache, name, ok, arg, gen) ==
    IF ~ok
    THEN [panicked |-> TRUE, loaded |-> FALSE, cache |-> cache]
    ELSE [panicked |-> FALSE, loaded |-> TRUE,
          cache |-> CacheInsert(cache, name,
                                ApplyMutator(LoadedModel(name, gen), arg))]
\* a with_model that reserves the cache entry before it asks the loader
WithModelInsertFirst(cache, name, ok, arg, gen) ==
    IF name \in DOMAIN cache
    THEN [panicked |-> FALSE, loaded |-> FALSE,
          cache |-> [cache EXCEPT ![name] = ApplyMutator(@, arg)]]
    ELSE IF ~ok
    THEN [panicked |-> TRUE, loaded |-> FALSE,
          cache |-> CacheInsert(cache, name, LoadedModel(name, gen))]
    ELSE [panicked |-> FALSE, loaded |-> TRUE,
          cache |-> CacheInsert(cache, name,
                                ApplyMutator(LoadedModel(name, gen), arg))]
\* with_model(name, f): ok is the loader's answer should it be asked, gen the
\* serial of the instance it would return
WithModel(cache, name, ok, arg, gen) ==
    IF name \in DOMAIN cache
    THEN [panicked |-> FALSE, loaded |-> FALSE,
          cache |-> [cache EXCEPT ![name] = ApplyMutator(@, arg)]]
    ELSE IF ~ok
    THEN [panicked |-> TRUE, loaded |-> FALSE, cache |-> cache]
    ELSE [panicked |-> FALSE, loaded |-> TRUE,
          cache |-> CacheInsert(cache, name,
                                ApplyMutator(LoadedModel(name, gen), arg))]

(***************************************************************************)
(* Initial states.                                                         *)
(***************************************************************************)
WinSizes == {<<WINDOW_WIDTH, WINDOW_HEIGHT>>,
             <<WINDOW_WIDTH \div 2, WINDOW_HEIGHT \div 2>>}
Cursor == (0..MaxCursor) \X (0..MaxCursor)
NoLoads == [n \in ModelNames |-> 0]
\* GL state of a fresh context on a window of the given size
GlInit(size) ==
    [fbo_bound |-> FALSE, viewport |-> size, depth_test |-> FALSE,
     polygon_fill |-> TRUE]
UboInit ==
    [sim_time |-> 0, mat_view |-> ViewMatrix(Zero3, 0, 0), mat_model |-> Zero3]

\* resources, window and history as main() has them on reaching the loop
InitRest ==
    /\ loaded_models = EmptyCache
    /\ ubo_global = UboInit
    /\ gl = GlInit(<<WINDOW_WIDTH, WINDOW_HEIGHT>>)
    /\ should_close = FALSE
    /\ win_size = <<WINDOW_WIDTH, WINDOW_HEIGHT>>
    /\ sim_time = 0
    /\ accumulator = 0
    /\ frame_time = 0
    /\ forward_held = FALSE
    /\ draw_idx = 1
    /\ frames = 0
    /\ events_polled = 0
    /\ escape_frame = 0
    /\ acc_before = 0
    /\ ticks_total = 0
    /\ ticks_in_frame = 0
    /\ moves_in_frame = 0
    /\ cams_in_frame = 0
    /\ renders_in_frame = 0
    /\ presents_in_frame = 0
    /\ loads = NoLoads
    /\ calls = NoLoads
    /\ draws = <<>>
    /\ first_system = "none"
    /\ cam_before = [pos |-> Zero3, forward |-> Zero3]

\* main() up to the loop: the world it spawns, the clock and cursor it reads
Init ==
    /\ pc = "loop_head"
    /\ comps = MainComps
    /\ position = MainPosition
    /\ velocity = MainVelocity
    /\ pitch_yaw = MainPitchYaw
    /\ model_name = MainModel
    /\ camera_comp = [e \in MainEntities |-> FpsCameraNew]
    /\ current_time \in 0..MaxStartTime
    /\ start_time = current_time
    /\ mouse \in Cursor
    /\ pending = {}
    /\ time = [time |-> 0, time_delta |-> 0]
    /\ InitRest

(***************************************************************************)
(* Update systems.                                                         *)
(***************************************************************************)
\* a camera query that does not ask for PitchYaw
CameraQueryNoPitchYaw == Query({"Position", "CameraComponent"})
CameraQuery == Query({"Position", "PitchYaw", "CameraComponent"})
\* a movement query that does not ask for Velocity
MovementQueryNoVelocity == Query({"Position"})
MovementQuery == Query({"Position", "Velocity"})
RenderCamQuery == Query({"CameraComponent"})
ModelQuery == Query({"Position", "Model"})

\* the component kinds each update system declares in its query
MovementAccess == [reads |-> {"Velocity"}, writes |-> {"Position"}]
CameraAccess == [reads |-> {"Position", "PitchYaw"},
                 writes |-> {"CameraComponent"}]

\* a movement that integrates over the frame time instead of the tick
MovementStepFrameTime(p, v, dt) == VAdd(p, VScale(v, frame_time))
\* position += velocity * time_delta
MovementStep(p, v, dt) == VAdd(p, VScale(v, dt))

\* fn movement
RunMovement ==
    /\ pc # "panicked"
    /\ "movement" \in pending
    /\ position' =
         [e \in Entities |->
            IF e \in MovementQuery
            THEN MovementStep(position[e], velocity[e], time.time_delta)
            ELSE position[e]]
    /\ pending' = pending \ {"movement"}
    /\ moves_in_frame' = moves_in_frame + 1
    /\ first_system' = (IF first_system = "none" THEN "movement"
                        ELSE first_system)
    /\ UNCHANGED <<pc, comps, velocity, pitch_yaw, model_name, camera_comp,
                   time, loop_vars, window_vars, render_vars, start_time,
                   frames, events_polled, escape_frame, acc_before,
                   ticks_total, ticks_in_frame, cams_in_frame,
                   renders_in_frame, presents_in_frame, cam_before>>

\* set_pos, set_pitch_yaw, update on the single camera
CameraSync(c, pos, py) ==
    FpsCameraUpdate([c EXCEPT !.pos = pos, !.pitch = py.pitch, !.yaw = py.yaw])

\* fn camera: get_single_mut().expect(..) panics unless exactly one matches
RunCamera ==
    /\ pc # "panicked"
    /\ "camera" \in pending
    /\ IF Cardinality(CameraQuery) = 1
       THEN /\ camera_comp' =
                 [e \in Entities |->
                    IF e \in CameraQuery
                    THEN CameraSync(camera_comp[e], position[e], pitch_yaw[e])
                    ELSE camera_comp[e]]
            /\ pending' = pending \ {"camera"}
            /\ cams_in_frame' = cams_in_frame + 1
            /\ first_system' = (IF first_system = "none" THEN "camera"
                                ELSE first_system)
            /\ pc' = pc
       ELSE /\ pc' = "panicked"
            /\ UNCHANGED <<camera_comp, pending, cams_in_frame, first_system>>
    /\ UNCHANGED <<comps, position, velocity, pitch_yaw, model_name, time,
                   loop_vars, window_vars, render_vars, start_time, frames,
                   events_polled, escape_frame, acc_before, ticks_total,
                   ticks_in_frame, moves_in_frame, renders_in_frame,
                   presents_in_frame, cam_before>>


(***************************************************************************)
(* The main loop.                                                          *)
(***************************************************************************)
Events == {"Escape", "WPress", "WRelease", "Resize"}

\* a handler that also closes on the release of W
IsCloseRequestAnyRelease(ev) == ev \in {"Escape", "WRelease"}
\* the event arm that calls set_should_close(true)
IsCloseRequest(ev) == ev = "Escape"

\* while !window.window.should_close(): the loop body is entered
StartFrame ==
    /\ pc = "loop_head"
    /\ ~should_close
    /\ frames < MaxFrames
    /\ pc' = "poll"
    /\ frames' = frames + 1
    /\ events_polled' = 0
    /\ acc_before' = accumulator
    /\ ticks_in_frame' = 0
    /\ moves_in_frame' = 0
    /\ cams_in_frame' = 0
    /\ renders_in_frame' = 0
    /\ presents_in_frame' = 0
    /\ cam_before' = [pos |-> position[camera_id],
                      forward |-> camera_comp[camera_id].forward]
    /\ UNCHANGED <<world, time, loop_vars, window_vars, render_vars, pending,
                   start_time, escape_frame, ticks_total, first_system>>

\* while !window.window.should_close(): the loop is left
ExitLoop ==
    /\ pc = "loop_head"
    /\ should_close
    /\ pc' = "exited"
    /\ UNCHANGED <<world, time, loop_vars, window_vars, render_vars, pending,
                   frame_hist, stage_hist>>

\* one event of window.poll_events(); a resize is an event of the `_` arm,
\* by which the window already has its new size
HandleEvent ==
    /\ pc = "poll"
    /\ events_polled < MaxEvents
    /\ \E ev \in Events, size \in WinSizes :
         /\ ev = "Resize" <=> size # win_size
         /\ should_close' = (should_close \/ IsCloseRequest(ev))
         /\ forward_held' = (IF ev = "WPress" THEN TRUE
                             ELSE IF ev = "WRelease" THEN FALSE
                             ELSE forward_held)
         /\ win_size' = size
         /\ escape_frame' = (IF ev = "Escape" /\ escape_frame = 0
                             THEN frames ELSE escape_frame)
    /\ events_polled' = events_polled + 1
    /\ UNCHANGED <<pc, world, time, current_time, sim_time, accumulator,
                   frame_time, mouse, render_vars, pending, start_time,
                   frames, acc_before, ticks_total, ticks_in_frame,
                   moves_in_frame, cams_in_frame, renders_in_frame,
                   presents_in_frame, stage_hist>>

\* a fly step that is the whole forward vector
FlyStepUnscaled(fwd) ==
    Vec3((fwd[1] * PosScale) \div Scale,
         (fwd[2] * PosScale) \div Scale,
         (fwd[3] * PosScale) \div Scale)
\* cam_forward * CAM_FLY_SPEED, in position units
FlyStep(fwd) ==
    Vec3((fwd[1] * PosScale) \div (Scale * CAM_FLY_SPEED_INV),
         (fwd[2] * PosScale) \div (Scale * CAM_FLY_SPEED_INV),
         (fwd[3] * PosScale) \div (Scale * CAM_FLY_SPEED_INV))

\* "Update camera": the cursor is read, its delta applied to the camera
\* entity's PitchYaw and, with W held, its Position advanced
CameraInput ==
    /\ pc = "poll"
    /\ \E cursor \in Cursor :
         LET mouse_dx == cursor[1] - mouse[1]
             mouse_dy == cursor[2] - mouse[2]
         IN  /\ mouse' = cursor
             /\ pitch_yaw' =
                  [pitch_yaw EXCEPT
                     ![camera_id] =
                        [pitch |-> @.pitch - mouse_dy * CAM_LOOK_SPEED,
                         yaw |-> @.yaw - mouse_dx * CAM_LOOK_SPEED]]
    /\ position' =
         IF forward_held
         THEN [position EXCEPT
                 ![camera_id] = VAdd(@, FlyStep(camera_comp[camera_id].forward))]
         ELSE position
    /\ pc' = "timestep"
    /\ events_polled' = 0
    /\ UNCHANGED <<comps, velocity, model_name, camera_comp, time,
                   current_time, sim_time, accumulator, frame_time,
                   forward_held, window_vars, render_vars, pending,
                   start_time, frames, escape_frame, acc_before, ticks_total,
                   ticks_in_frame, moves_in_frame, cams_in_frame,
                   renders_in_frame, presents_in_frame, stage_hist>>

\* an accumulator that forgets what the previous frame left over
AccumulateFresh(acc, t) == t
\* accumulator += frame_time
Accumulate(acc, t) == acc + t

\* new_time is read; frame_time = new_time - current_time is added to the
\* accumulator
ReadClock ==
    /\ pc = "timestep"
    /\ \E t \in 0..MaxFrameTime :
         /\ frame_time' = t
         /\ current_time' = current_time + t
         /\ accumulator' = Accumulate(accumulator, t)
    /\ pc' = "ticks"
    /\ UNCHANGED <<world, time, sim_time, mouse, forward_held, window_vars,
                   render_vars, pending, frame_hist, stage_hist>>

\* a catch-up loop that needs more than one tick of time
LoopCondStrict(acc) == acc > FIXED_UPDATE_TIME
\* while accumulator >= FIXED_UPDATE_TIME
LoopCond(acc) == acc >= FIXED_UPDATE_TIME

\* an update stage to which the camera system was never added
StageSystemsNoCamera == {"movement"}
\* SystemStage::parallel().with_system(movement).with_system(camera)
StageSystems == {"movement", "camera"}

\* "Update time", and update_schedule.run starts the stage's systems
TickBegin ==
    /\ pc = "ticks"
    /\ LoopCond(accumulator)
    /\ time' = [time |-> sim_time, time_delta |-> FIXED_UPDATE_TIME]
    /\ pending' = StageSystems
    /\ pc' = "update"
    /\ UNCHANGED <<world, loop_vars, window_vars, render_vars, frame_hist,
                   stage_hist>>

\* a schedule whose run returns without waiting for its systems
StageReturnsEarly == TRUE
\* a schedule whose run never returns
StageNeverJoins == FALSE
\* update_schedule.run returns when every system of the stage has run
StageJoined == pending = {}

\* a simulation clock advanced by the frame time
AdvanceSimTimeByFrame(t) == t + frame_time
\* sim_time += FIXED_UPDATE_TIME
AdvanceSimTime(t) == t + FIXED_UPDATE_TIME

\* "Consume accumulated time"
TickEnd ==
    /\ pc = "update"
    /\ StageJoined
    /\ accumulator' = accumulator - FIXED_UPDATE_TIME
    /\ sim_time' = AdvanceSimTime(sim_time)
    /\ ticks_total' = ticks_total + 1
    /\ ticks_in_frame' = ticks_in_frame + 1
    /\ pc' = "ticks"
    /\ first_system' = "none"
    /\ UNCHANGED <<world, time, current_time, frame_time, mouse, forward_held,
                   window_vars, render_vars, pending, start_time, frames,
                   events_polled, escape_frame, acc_before, moves_in_frame,
                   cams_in_frame, renders_in_frame, presents_in_frame,
                   cam_before>>


(***************************************************************************)
(* The render system.                                                      *)
(***************************************************************************)
\* a draw call, with the GL state and the window size it is issued under
DrawCall(kind, g) ==
    [kind |-> kind, fbo_bound |-> g.fbo_bound, viewport |-> g.viewport,
     depth_test |-> g.depth_test, polygon_fill |-> g.polygon_fill,
     window |-> win_size]

\* a render that brings the camera up to date before reading it
RenderCameraResync(e) == CameraSync(camera_comp[e], position[e], pitch_yaw[e])
\* cam_query.get_single_mut(): borrowed mutably, only read
RenderCamera(e) == camera_comp[e]

\* the entity the model query visits next, from entity `from` on; 0 at the end
NextModelEntity(from) ==
    IF \E e \in ModelQuery : e >= from
    THEN CHOOSE e \in ModelQuery :
            e >= from /\ \A o \in ModelQuery : o >= from => e <= o
    ELSE 0

\* render, up to the model loop: the camera is fetched, ubo_global updated,
\* the framebuffer bound and cleared
RenderBegin ==
    /\ pc = "ticks"
    /\ ~LoopCond(accumulator)
    /\ IF Cardinality(RenderCamQuery) = 1
       THEN LET e == CHOOSE c \in RenderCamQuery : TRUE
                cam == RenderCamera(e)
            IN  /\ camera_comp' = [camera_comp EXCEPT ![e] = cam]
                /\ ubo_global' = [ubo_global EXCEPT !.sim_time = time.time,
                                                    !.mat_view = cam.view]
                /\ gl' = [fbo_bound |-> TRUE,
                          viewport |-> <<RENDER_WIDTH, RENDER_HEIGHT>>,
                          depth_test |-> TRUE,
                          polygon_fill |-> IF WIREFRAME_MODE THEN FALSE
                                           ELSE gl.polygon_fill]
                /\ draws' = <<>>
                /\ draw_idx' = 1
                /\ renders_in_frame' = renders_in_frame + 1
                /\ pc' = "render_draw"
       ELSE /\ pc' = "panicked"
            /\ UNCHANGED <<camera_comp, ubo_global, gl, draws, draw_idx,
                           renders_in_frame>>
    /\ UNCHANGED <<comps, position, velocity, pitch_yaw, model_name, time,
                   loop_vars, window_vars, loaded_models, loads, calls,
                   pending, start_time, frames, events_polled, escape_frame,
                   acc_before, ticks_total, ticks_in_frame, moves_in_frame,
                   cams_in_frame, presents_in_frame, stage_hist>>

\* one iteration of "Render objects": the model of the next entity is
\* fetched through with_model, placed at the entity's position and drawn
RenderDraw ==
    /\ pc = "render_draw"
    /\ NextModelEntity(draw_idx) # 0
    /\ LET e == NextModelEntity(draw_idx)
           name == model_name[e]
       IN  \E ok \in (IF name \in DOMAIN loaded_models THEN {TRUE} ELSE BOOLEAN) :
             LET r == WithModel(loaded_models, name, ok, position[e],
                                loads[name] + 1)
             IN  /\ ubo_global' = [ubo_global EXCEPT !.mat_model = Zero3]
                 /\ loaded_models' = r.cache
                 /\ IF r.panicked
                    THEN /\ pc' = "panicked"
                         /\ UNCHANGED <<loads, calls, draws, draw_idx>>
                    ELSE /\ pc' = pc
                         /\ loads' = IF r.loaded
                                     THEN [loads EXCEPT ![name] = @ + 1]
                                     ELSE loads
                         /\ calls' = [calls EXCEPT ![name] = @ + 1]
                         /\ draws' = Append(draws, DrawCall("scene", gl))
                         /\ draw_idx' = e + 1
    /\ UNCHANGED <<world, time, loop_vars, window_vars, gl, pending,
                   frame_hist, stage_hist>>

\* the step of main() that follows a render pass that was never presented
PcAfterRenderNoPresent == "loop_head"
\* the step of main() that follows render_schedule.run: swap_buffers
PcAfterRender == "present"

\* "Blit to window"
RenderBlit ==
    /\ pc = "render_draw"
    /\ NextModelEntity(draw_idx) = 0
    /\ gl' = [fbo_bound |-> FALSE,
              viewport |-> <<WINDOW_WIDTH, WINDOW_HEIGHT>>,
              depth_test |-> FALSE,
              polygon_fill |-> TRUE]
    /\ draws' = Append(draws, DrawCall("blit", gl'))
    /\ pc' = PcAfterRender
    /\ UNCHANGED <<world, time, loop_vars, window_vars, loaded_models,
                   ubo_global, draw_idx, loads, calls, pending, frame_hist,
                   stage_hist>>

\* window.window.swap_buffers()
Present ==
    /\ pc = "present"
    /\ presents_in_frame' = presents_in_frame + 1
    /\ pc' = "loop_head"
    /\ UNCHANGED <<world, time, loop_vars, window_vars, render_vars, pending,
                   start_time, frames, events_polled, escape_frame,
                   acc_before, ticks_total, ticks_in_frame, moves_in_frame,
                   cams_in_frame, renders_in_frame, stage_hist>>

Next ==
    \/ StartFrame
    \/ ExitLoop
    \/ HandleEvent
    \/ CameraInput
    \/ ReadClock
    \/ TickBegin
    \/ RunMovement
    \/ RunCamera
    \/ TickEnd
    \/ RenderBegin
    \/ RenderDraw
    \/ RenderBlit
    \/ Present

Spec == Init /\ [][Next]_vars

\* main() is a running process: no call of the loop body blocks
\* (poll_events, get_time and swap_buffers return, the stage's threads are
\* scheduled), so a step that stays possible is eventually taken
SpecFair == Spec /\ WF_vars(Next)


(***************************************************************************)
(* The systems on an arbitrary world: every assignment of component kinds  *)
(* to MaxEntities entities, at the start of one update stage or of one     *)
(* render pass.                                                            *)
(***************************************************************************)
WorldEntities == 1..MaxEntities
InitWorld ==
    /\ comps \in [WorldEntities -> SUBSET Kinds]
    /\ position = [e \in WorldEntities |-> WorldPos(e, 0, 0)]
    /\ velocity = [e \in WorldEntities |-> Vec3(0, Scale \div 2, 0)]
    /\ pitch_yaw = [e \in WorldEntities |-> [pitch |-> -(Scale \div 10), yaw |-> 0]]
    /\ model_name = [e \in WorldEntities |-> IF e % 2 = 1 THEN DEMO_SCENE ELSE FIRE_ORB]
    /\ camera_comp = [e \in WorldEntities |-> FpsCameraNew]
    /\ pc \in {"update", "ticks"}
    /\ pending = IF pc = "update" THEN StageSystems ELSE {}
    /\ time = [time |-> 0, time_delta |-> FIXED_UPDATE_TIME]
    /\ current_time = 0
    /\ start_time = 0
    /\ mouse = <<0, 0>>
    /\ InitRest

NextWorld ==
    \/ RunMovement
    \/ RunCamera
    \/ RenderBegin
    \/ RenderDraw
    \/ RenderBlit

SpecWorld == InitWorld /\ [][NextWorld]_vars

(***************************************************************************)
(* ModelManager under an arbitrary sequence of with_model calls.           *)
(***************************************************************************)
CallArgs == {Zero3, WorldPos(1, 0, 0)}
TotalCalls == calls[DEMO_SCENE] + calls[FIRE_ORB] + calls[OTHER_MODEL]

InitCache ==
    /\ pc = "with_model"
    /\ comps = MainComps
    /\ position = MainPosition
    /\ velocity = MainVelocity
    /\ pitch_yaw = MainPitchYaw
    /\ model_name = MainModel
    /\ camera_comp = [e \in MainEntities |-> FpsCameraNew]
    /\ pending = {}
    /\ time = [time |-> 0, time_delta |-> 0]
    /\ current_time = 0
    /\ start_time = 0
    /\ mouse = <<0, 0>>
    /\ InitRest

\* one call model_manager.with_model(name, f)
CallWithModel ==
    /\ pc = "with_model"
    /\ TotalCalls < MaxCalls
    /\ \E name \in ModelNames, arg \in CallArgs :
         \E ok \in (IF name \in DOMAIN loaded_models THEN {TRUE} ELSE BOOLEAN) :
           LET r == WithModel(loaded_models, name, ok, arg, loads[name] + 1)
           IN  IF r.panicked
               THEN /\ pc' = "panicked"
                    /\ UNCHANGED <<loaded_models, loads, calls>>
               ELSE /\ pc' = pc
                    /\ loaded_models' = r.cache
                    /\ loads' = IF r.loaded
                                THEN [loads EXCEPT ![name] = @ + 1]
                                ELSE loads
                    /\ calls' = [calls EXCEPT ![name] = @ + 1]
    /\ UNCHANGED <<world, time, loop_vars, window_vars, ubo_global, gl,
                   draw_idx, draws, pending, frame_hist, stage_hist>>

SpecCache == InitCache /\ [][CallWithModel]_vars


(***************************************************************************)
(* Claims.                                                                 *)
(***************************************************************************)
\* the catch-up loop of the current frame has exited
AfterCatchUp ==
    \/ pc \in {"render_draw", "present", "exited"}
    \/ pc = "loop_head" /\ frames > 0

\* C1: in every frame, with accumulator A at frame start and frame time T,
\* the ticks executed in the frame number floor((A + T) / FIXED_UPDATE_TIME),
\* and the accumulator the catch-up loop leaves is in [0, FIXED_UPDATE_TIME).
C1_TicksPerFrame ==
    AfterCatchUp =>
        /\ ticks_in_frame = (acc_before + frame_time) \div FIXED_UPDATE_TIME
        /\ 0 <= accumulator
        /\ accumulator < FIXED_UPDATE_TIME
\* a frame that starts with a carried-over accumulator and catches up twice
C1_Witness ==
    /\ pc = "present"
    /\ acc_before = 1
    /\ frame_time = MaxFrameTime
    /\ ticks_in_frame >= 2

\* C2: between ticks, sim_time equals the number of ticks executed so far
\* times FIXED_UPDATE_TIME, whatever the frame times were.
C2_SimTimeNoDrift ==
    pc # "update" => sim_time = ticks_total * FIXED_UPDATE_TIME
\* ticks of two frames with different frame times
C2_Witness ==
    /\ pc = "loop_head"
    /\ frames = 2
    /\ frame_time = 3
    /\ ticks_in_frame = 1
    /\ ticks_total = 3

\* C3: after N ticks the Position of every entity with Position and Velocity
\* is its initial position plus velocity * (N * FIXED_UPDATE_TIME), however
\* the ticks were grouped into frames.
C3_PositionAfterTicks ==
    pc # "update" =>
        \A e \in MovementQuery :
            position[e] =
                VAdd(MainPosition[e],
                     VScale(velocity[e], ticks_total * FIXED_UPDATE_TIME))
\* a ball has moved by three ticks, one in the first frame and two in the second
C3_Witness ==
    /\ pc = "present"
    /\ frames = 2
    /\ ticks_in_frame = 2
    /\ ticks_total = 3
    /\ accumulator = 1
    /\ position[3] # MainPosition[3]

\* C4: every frame runs exactly one render pass followed by one present,
\* whether zero, one or many ticks ran in it.
C4_OneRenderOnePresent ==
    /\ renders_in_frame <= 1
    /\ presents_in_frame <= renders_in_frame
    /\ pc = "present" => renders_in_frame = 1 /\ presents_in_frame = 0
    /\ (pc \in {"loop_head", "exited"} /\ frames > 0) =>
           renders_in_frame = 1 /\ presents_in_frame = 1
\* a frame without ticks has ended, after a frame with two
C4_Witness ==
    /\ pc = "loop_head"
    /\ frames = 2
    /\ ticks_in_frame = 0
    /\ ticks_total = 2
    /\ presents_in_frame = 1

\* C5: over any sequence of with_model calls the loader returns at most one
\* model per name, on the first call with that name; every later call with
\* the name applies its mutator to that same instance, so the cached model
\* carries the mutations of all the calls made with its name.
C5_AtMostOneLoad ==
    \A n \in ModelNames :
        /\ loads[n] <= 1
        /\ n \in DOMAIN loaded_models <=> calls[n] > 0
        /\ n \in DOMAIN loaded_models =>
              /\ loads[n] = 1
              /\ loaded_models[n].gen = 1
              /\ loaded_models[n].applied = calls[n]
\* a name called three times while another name is cached too
C5_Witness ==
    /\ calls[FIRE_ORB] = 3
    /\ calls[DEMO_SCENE] = 1
    /\ loaded_models[FIRE_ORB].transform # loaded_models[DEMO_SCENE].transform

\* entities that carry the full camera component set
FullCameras == {e \in Entities :
                  {"CameraComponent", "Position", "PitchYaw"} \subseteq comps[e]}

\* C6: when the camera routine or the render routine runs in a world in which
\* the entities with CameraComponent + Position + PitchYaw number zero or two
\* or more, the routine fails and never proceeds with one chosen entity.
C6_SingleCameraEnforced ==
    Cardinality(FullCameras) # 1 =>
        /\ cams_in_frame = 0
        /\ pc \notin {"render_draw", "present"}

\* a step of the render pass
RenderStep ==
    \/ pc = "ticks" /\ pc' = "render_draw"
    \/ pc = "render_draw"

\* C7: a render pass never mutates entity components: Position, Velocity,
\* PitchYaw, Model and CameraComponent of every entity, the Time resource and
\* the loop's accumulator and sim_time are the same after it as before it.
C7_RenderLeavesWorld ==
    [][RenderStep => UNCHANGED <<world, time, accumulator, sim_time>>]_vars
\* a render pass has completed while the camera component is out of date
C7_Witness ==
    /\ pc = "present"
    /\ Len(draws) = 6
    /\ camera_comp[camera_id].pitch # pitch_yaw[camera_id].pitch

\* C8: the render pass of a frame begins only when every update routine of
\* every tick of the frame has completed, and no run of movement or camera
\* is interleaved with it or follows its start.
C8_RenderAfterUpdates ==
    pc \in {"render_draw", "present"} =>
        /\ pending = {}
        /\ moves_in_frame = ticks_in_frame
        /\ cams_in_frame = ticks_in_frame
\* the render pass of a frame with two ticks is under way
C8_Witness ==
    /\ pc = "render_draw"
    /\ ticks_in_frame = 2
    /\ moves_in_frame = 2
    /\ Len(draws) = 3

\* C9: every scene draw is issued with the offscreen framebuffer as draw
\* target, the viewport RENDER_WIDTH x RENDER_HEIGHT and depth testing on;
\* the blit draw is issued after all scene draws, with the offscreen target
\* unbound, depth testing off, fill mode restored and the viewport set to the
\* full current window size.
C9_DrawState ==
    \A i \in 1..Len(draws) :
        LET d == draws[i]
        IN  /\ d.kind = "scene" =>
                 /\ d.fbo_bound
                 /\ d.viewport = <<RENDER_WIDTH, RENDER_HEIGHT>>
                 /\ d.depth_test
            /\ d.kind = "blit" =>
                 /\ i = Len(draws)
                 /\ i = Cardinality(ModelQuery) + 1
                 /\ ~d.fbo_bound
                 /\ ~d.depth_test
                 /\ d.polygon_fill
                 /\ d.viewport = d.window

\* C10: the main loop exits only after an Escape press has been polled:
\* without one the loop condition lets the next frame start; once it is
\* polled the frame in progress completes with its render pass and present,
\* and no further frame starts.
C10_ExitOnlyOnEscape ==
    /\ escape_frame = 0 => ~should_close /\ pc # "exited"
    /\ (escape_frame = 0 /\ pc = "loop_head" /\ frames < MaxFrames) =>
           ENABLED StartFrame
    /\ escape_frame # 0 => should_close /\ frames = escape_frame
    /\ pc = "exited" =>
           /\ escape_frame = frames
           /\ cams_in_frame = ticks_in_frame
           /\ renders_in_frame = 1
           /\ presents_in_frame = 1
\* the loop has exited after the second frame, which ran a tick
C10_Witness ==
    /\ pc = "exited"
    /\ frames = 2
    /\ ticks_in_frame >= 1

\* C11: when a render pass has started, the CameraComponent of the camera
\* entity, and the view matrix the pass has read from it, are the ones
\* computed from that entity's current Position and PitchYaw, also in a
\* frame that ran no tick.
C11_CameraFreshAtRender ==
    pc = "render_draw" =>
        LET view == ViewMatrix(position[camera_id],
                               pitch_yaw[camera_id].pitch,
                               pitch_yaw[camera_id].yaw)
        IN  /\ camera_comp[camera_id].view = view
            /\ ubo_global.mat_view = view

\* the update stage of the current tick has run both of its systems
StageDone == pc = "update" /\ pending = {}
\* Position of entity e after one movement from the initial arbitrary world
MovedOnce(e) ==
    IF {"Position", "Velocity"} \subseteq comps[e]
    THEN VAdd(WorldPos(e, 0, 0), VScale(velocity[e], FIXED_UPDATE_TIME))
    ELSE WorldPos(e, 0, 0)
\* CameraComponent of entity e after one camera run that saw Position pos
SyncedOnce(e, pos) ==
    IF {"Position", "PitchYaw", "CameraComponent"} \subseteq comps[e]
    THEN CameraSync(FpsCameraNew, pos, pitch_yaw[e])
    ELSE FpsCameraNew
\* some entity is matched by the query of movement and by that of camera
QueriesOverlap ==
    \E e \in Entities :
        {"Position", "Velocity", "PitchYaw", "CameraComponent"}
            \subseteq comps[e]

\* C12 (as stated): movement and camera do not conflict, so whichever of
\* them runs first in a tick, the world after the tick is the same: the
\* one in which camera saw the Positions from before movement.
C12_AnyOrderSameWorld ==
    StageDone =>
        /\ position = [e \in Entities |-> MovedOnce(e)]
        /\ camera_comp =
              [e \in Entities |-> SyncedOnce(e, WorldPos(e, 0, 0))]
\* C12 (amended): the only component kind one of the two systems writes
\* and the other accesses is Position, written by movement and read by
\* camera; in a world where no entity is matched by both queries, as in
\* the world of main(), the world after the tick is the same whichever
\* system ran first.
C12_DisjointEntitiesSameWorld ==
    /\ MovementAccess.writes
          \cap (CameraAccess.reads \cup CameraAccess.writes) = {"Position"}
    /\ CameraAccess.writes
          \cap (MovementAccess.reads \cup MovementAccess.writes) = {}
    /\ (StageDone /\ ~QueriesOverlap) =>
          /\ position = [e \in Entities |-> MovedOnce(e)]
          /\ camera_comp =
                [e \in Entities |-> SyncedOnce(e, WorldPos(e, 0, 0))]
          /\ camera_comp = [e \in Entities |-> SyncedOnce(e, MovedOnce(e))]
\* movement ran before camera on a world of one camera and one moving
\* entity
C12_Witness ==
    /\ StageDone
    /\ first_system = "movement"
    /\ comps[1] = {"Position", "PitchYaw", "CameraComponent"}
    /\ {"Position", "Velocity"} \subseteq comps[2]

\* C13: every tick runs movement once and camera once, and both have run
\* before the tick consumes the accumulator, advances sim_time or the next
\* tick writes the Time resource: while a tick's systems run, Time still
\* holds this tick's start and the accumulator its unconsumed slice.
C13_SystemsOncePerTick ==
    /\ pc # "update" =>
          /\ pending = {}
          /\ moves_in_frame = ticks_in_frame
          /\ cams_in_frame = ticks_in_frame
    /\ pc = "update" =>
          /\ moves_in_frame =
                ticks_in_frame + (IF "movement" \in pending THEN 0 ELSE 1)
          /\ cams_in_frame =
                ticks_in_frame + (IF "camera" \in pending THEN 0 ELSE 1)
          /\ time.time = sim_time
          /\ sim_time = ticks_total * FIXED_UPDATE_TIME
          /\ accumulator >= FIXED_UPDATE_TIME
\* the second tick of a frame, after camera and before movement
C13_Witness ==
    /\ pc = "update"
    /\ ticks_in_frame = 1
    /\ pending = {"movement"}
    /\ first_system = "camera"

\* C14: the simulation time a render pass has written into ubo_global is
\* the main loop's sim_time at that pass, ticks so far * FIXED_UPDATE_TIME.
C14_RenderSimTime ==
    pc \in {"render_draw", "present"} =>
        /\ ubo_global.sim_time = sim_time
        /\ ubo_global.sim_time = ticks_total * FIXED_UPDATE_TIME

\* the per-frame input step of the current frame has run
AfterInput ==
    \/ pc \in {"timestep", "ticks", "update", "render_draw", "present",
                "panicked"}
    \/ pc \in {"loop_head", "exited"} /\ frames > 0

\* C15: from the input step of a frame to the frame's end, whatever the
\* number of ticks, the camera entity's Position is its Position at frame
\* start plus, if forward motion is held after event polling, one step of
\* forward * CAM_FLY_SPEED (forward as the CameraComponent stores it), and
\* is its Position at frame start if it is not held.
C15_FlyOncePerFrame ==
    AfterInput =>
        position[camera_id] =
            IF forward_held
            THEN VAdd(cam_before.pos,
                      Vec3((cam_before.forward[1] * PosScale)
                               \div (Scale * CAM_FLY_SPEED_INV),
                           (cam_before.forward[2] * PosScale)
                               \div (Scale * CAM_FLY_SPEED_INV),
                           (cam_before.forward[3] * PosScale)
                               \div (Scale * CAM_FLY_SPEED_INV)))
            ELSE cam_before.pos
\* a frame with W held that ran two ticks and moved the camera
C15_Witness ==
    /\ pc = "present"
    /\ forward_held
    /\ ticks_in_frame = 2
    /\ position[camera_id] # cam_before.pos

\* C16: a run of movement changes nothing but the Position of entities
\* that carry both Position and Velocity: the Position of an entity
\* without Velocity, and every Velocity, PitchYaw, Model and
\* CameraComponent, are the same after the run as before it.
C16_MovementWritesMovers ==
    [][moves_in_frame' = moves_in_frame + 1 =>
          /\ UNCHANGED <<comps, velocity, pitch_yaw, model_name, camera_comp>>
          /\ \A e \in Entities :
                ~({"Position", "Velocity"} \subseteq comps[e]) =>
                    position'[e] = position[e]]_vars
\* movement has run on a world with a camera entity without Velocity and
\* an entity it moved
C16_Witness ==
    /\ moves_in_frame = 1
    /\ comps[1] = {"Position", "PitchYaw", "CameraComponent"}
    /\ {"Position", "Velocity"} \subseteq comps[2]
    /\ position[1] = WorldPos(1, 0, 0)
    /\ position[2] # WorldPos(2, 0, 0)

\* C17: a with_model call whose load fails is fatal: the step that fails
\* applies no mutator, inserts no entry and leaves every cached entry as
\* it was, issues no draw, and no step of the program follows it.
C17_LoadFailureFatal ==
    [][/\ pc # "panicked"
       /\ pc' = "panicked" =>
             /\ pc = "render_draw"
             /\ model_name[NextModelEntity(draw_idx)]
                    \notin DOMAIN loaded_models
             /\ UNCHANGED <<loaded_models, loads, calls, draws, draw_idx,
                            frames, presents_in_frame>>]_vars
\* the load of the second model name failed after the first was cached
C17_Witness ==
    /\ pc = "panicked"
    /\ DOMAIN loaded_models = {DEMO_SCENE}
    /\ loaded_models[DEMO_SCENE].applied = 1
    /\ calls[FIRE_ORB] = 0
    /\ Len(draws) = 1
    /\ presents_in_frame = 0

\* the render pass of the first frame has run to its end
FirstPassCompleted ==
    \/ frames >= 2
    \/ frames = 1 /\ pc \in {"present", "loop_head", "exited"}
\* the model names of the entities render draws
DrawnNames == {model_name[e] : e \in ModelQuery}

\* C18: no step removes a name from the model cache or replaces the
\* instance cached under a name; once the first render pass has completed
\* the cache holds exactly the distinct model names of the entities with
\* Position and Model, and no later step loads a model.
C18_CacheOnlyGrows ==
    [][/\ DOMAIN loaded_models \subseteq DOMAIN loaded_models'
       /\ \A n \in DOMAIN loaded_models :
             loaded_models'[n].gen = loaded_models[n].gen
       /\ FirstPassCompleted =>
             /\ DOMAIN loaded_models = DrawnNames
             /\ loads' = loads]_vars
\* the second render pass has drawn every entity from the cache
C18_Witness ==
    /\ frames = 2
    /\ pc = "present"
    /\ DOMAIN loaded_models = {DEMO_SCENE, FIRE_ORB}
    /\ loads[DEMO_SCENE] = 1
    /\ loads[FIRE_ORB] = 1
    /\ calls[DEMO_SCENE] = 2
    /\ calls[FIRE_ORB] = 8

\* C20: once the catch-up loop of a frame has exited, and so at the end of
\* the frame, sim_time + accumulator is the wall-clock time elapsed since
\* the clock was read before the loop: current_time - start_time.
C20_NoTimeLost ==
    AfterCatchUp => sim_time + accumulator = current_time - start_time
\* the end of a second frame, two ticks and a leftover after a clock that
\* did not start at 0
C20_Witness ==
    /\ pc = "loop_head"
    /\ frames = 2
    /\ start_time = 1
    /\ ticks_in_frame = 1
    /\ sim_time = 2 * FIXED_UPDATE_TIME
    /\ accumulator = 1

\* C19: every frame that starts renders: from the event poll of a frame,
\* for every frame time, the catch-up loop comes to its end after finitely
\* many ticks and the render pass of that frame begins.
C19_FrameRenders ==
    (pc = "poll") ~> (pc = "render_draw" /\ renders_in_frame = 1)
\* the render pass of a frame with the largest frame time, after two ticks
C19_Witness ==
    /\ pc = "render_draw"
    /\ renders_in_frame = 1
    /\ frame_time = MaxFrameTime
    /\ ticks_in_frame = 2
    /\ draws = <<>>

====
